---------------------------- MODULE Spec2Model ----------------------------
(***************************************************************************)
(* Model of the three Arista automation scripts:                          *)
(*   DR-DC-TOR-ARSW-02.py  deploy_config over the serial console           *)
(*   Show-Config.py        retrieval of the running configuration          *)
(*   Vlan-Definitions.py   create_vlans                                    *)
(* One run of one script is one behaviour.  The device, the serial port    *)
(* and the connection library are the environment: every call into them    *)
(* either returns or raises, and a returned response may carry the         *)
(* device's error marker.                                                  *)
(***************************************************************************)
EXTENDS Integers, Sequences, FiniteSets, TLC

VARIABLES
    script,      \* which script this run executes
    pc,          \* position in the script
    vlan_ids,    \* create_vlans argument
    vlan_names,  \* create_vlans argument: [given |-> FALSE] is None
    commands,    \* create_vlans local list
    idx,         \* create_vlans loop position (enumerate index + 1)
    bound,       \* local names that have been assigned (what locals() holds)
    open,        \* handles currently open: [h |-> name, target |-> port or host]
    opened,      \* names of the handles opened so far in this run
    closeCalls,  \* names of the handles close()/disconnect() was called on, in order
    wire,        \* calls that reached the transport, in order, with their outcome
    log,         \* messages given to logger.info / logger.error, in order
    exc,         \* "none", "raised" (propagating), "handled" (caught by except)
    ret          \* what the script's function returned or raised

vars == <<script, pc, vlan_ids, vlan_names, commands, idx, bound, open, opened,
          closeCalls, wire, log, exc, ret>>

(***************************************************************************)
(* Bounds of the explored inputs.                                          *)
(***************************************************************************)
MaxVlans == 2
MaxIfIndex == 60

(***************************************************************************)
(* Settings fixed in the scripts.                                          *)
(***************************************************************************)
SERIAL_PORT == "COM4"
HOSTNAME == "DBDR-HCI-TOR-SW-02"
MGMT_IP == "172.16.105.11/24"
MLAG_PEER_IP == "10.0.0.1"
MLAG_VLAN_IP == "10.0.0.2/30"
SHOW_HOST == "192.0.2.10"
VLAN_HOST == "192.168.1.1"

PO_FIRST == 10
PO_STOP == 46
ETH_OFFSET == 9
MIN_VLAN == 1
MAX_VLAN == 4094

(***************************************************************************)
(* Python's formatting of a non-negative int inside an f-string.           *)
(***************************************************************************)
Digit(d) ==
    CASE d = 0 -> "0" [] d = 1 -> "1" [] d = 2 -> "2" [] d = 3 -> "3"
      [] d = 4 -> "4" [] d = 5 -> "5" [] d = 6 -> "6" [] d = 7 -> "7"
      [] d = 8 -> "8" [] d = 9 -> "9"

RECURSIVE IntStr(_)
IntStr(n) == IF n < 10 THEN Digit(n) ELSE IntStr(n \div 10) \o Digit(n % 10)

(***************************************************************************)
(* Configuration templates.  The base list has no comma between "exit"     *)
(* and "ip domain-name Dashen.local": Python joins adjacent literals.      *)
(***************************************************************************)
get_base_config ==
    << "enable",
       "configure terminal",
       "hostname " \o HOSTNAME,
       "no aaa root",
       "username admin privilege 15 secret %TGBnhy6",
       "enable secret %TGBnhy6",
       "line console 0",
       "login local",
       "exec-timeout 10 0",
       "no history",
       "length 0",
       "transport input none",
       "exit",
       "interface Management1",
       "ip address " \o MGMT_IP,
       "no shutdown",
       "exit" \o "ip domain-name Dashen.local",
       "username admin privilege 15 secret %TGBnhy6",
       "ip ssh version 2",
       "crypto key generate rsa modulus 2048" >>

get_mlag_config ==
    << "vlan 4094",
       "name MLAG-Peer",
       "trunk group MLAG-Peer",
       "exit",
       "interface Vlan4094",
       "ip address " \o MLAG_VLAN_IP,
       "no shutdown",
       "exit",
       "interface Ethernet49-50",
       "description MLAG_PEER_LINK_MEMBER",
       "channel-group 100 mode active",
       "no shutdown",
       "exit",
       "interface Port-Channel100",
       "description MLAG_PEER_LINK",
       "switchport mode trunk",
       "mlag peer-link",
       "no shutdown",
       "exit",
       "mlag configuration",
       "domain-id DR-TOR-MLAG",
       "local-interface Vlan4094",
       "peer-address " \o MLAG_PEER_IP,
       "peer-link Port-Channel100",
       "exit" >>

\* variant: the member offset is one too large
EthPortOf_OffByOne(po) == po - (ETH_OFFSET + 1)

\* eth_port = po - 9
EthPortOf(po) == po - ETH_OFFSET

\* the list one iteration of the loop extends config with
PortChannelPair(po) ==
    << "interface Ethernet" \o IntStr(EthPortOf(po)),
       "description PC_" \o IntStr(po) \o "_MEMBER",
       "channel-group " \o IntStr(po) \o " mode active",
       "no shutdown",
       "exit",
       "interface Port-Channel" \o IntStr(po),
       "description UPLINK_PO_" \o IntStr(po),
       "switchport mode trunk",
       "mlag " \o IntStr(po),
       "no shutdown",
       "exit" >>

\* range(10, 46)
PoRange == PO_FIRST .. (PO_STOP - 1)

RECURSIVE PortChannelsFrom(_)
PortChannelsFrom(po) ==
    IF po \notin PoRange THEN << >>
    ELSE PortChannelPair(po) \o PortChannelsFrom(po + 1)

generate_port_channels == PortChannelsFrom(PO_FIRST)


(***************************************************************************)
(* The environment.                                                        *)
(***************************************************************************)
\* how a call into the connection library ends: it returns a clean response,
\* it returns a response that carries the device's error marker, or it raises
Outcomes == {"ok", "error_marker", "raise"}

\* the record of one call that reached the transport
Sent(call, site, cmds, outcome) ==
    [call |-> call, site |-> site, cmds |-> cmds, outcome |-> outcome]

Handle(h, target) == [h |-> h, target |-> target]

\* the handles named h that are open
OpenNamed(h) == {x \in open : x.h = h}

\* conn.send_config_set(cmds) / conn.send_command(cmd) inside a with block:
\* a raise leaves the block through failPc, a return logs msgs and goes on
SendStep(call, site, cmds, msgs, nextPc, failPc) ==
    \E o \in Outcomes :
        /\ wire' = Append(wire, Sent(call, site, cmds, o))
        /\ IF o = "raise"
           THEN /\ exc' = "raised"
                /\ pc' = failPc
                /\ log' = log
           ELSE /\ exc' = exc
                /\ pc' = nextPc
                /\ log' = log \o msgs
        /\ UNCHANGED <<script, vlan_ids, vlan_names, commands, idx, bound,
                       open, opened, closeCalls, ret>>

(***************************************************************************)
(* DR-DC-TOR-ARSW-02.py: deploy_config                                     *)
(***************************************************************************)
\* ser = establish_serial_connection()
EstablishSerial ==
    /\ script = "deploy" /\ pc = "d_serial"
    /\ \E ok \in BOOLEAN :
        IF ok
        THEN /\ open' = open \cup {Handle("ser", SERIAL_PORT)}
             /\ opened' = opened \cup {"ser"}
             /\ bound' = bound \cup {"ser"}
             /\ log' = Append(log, "Serial connection established")
             /\ exc' = exc
             /\ pc' = "d_connect"
        ELSE /\ log' = Append(log, "Serial connection failed")
             /\ exc' = "raised"
             /\ pc' = "d_except"
             /\ UNCHANGED <<open, opened, bound>>
    /\ UNCHANGED <<script, vlan_ids, vlan_names, commands, idx, closeCalls, wire, ret>>

\* with ConnectHandler(**netmiko_device) as conn: the library opens
\* serial_settings['port'], which is SERIAL_PORT again
DeployConnect ==
    /\ script = "deploy" /\ pc = "d_connect"
    /\ \E ok \in BOOLEAN :
        IF ok
        THEN /\ open' = open \cup {Handle("conn", SERIAL_PORT)}
             /\ opened' = opened \cup {"conn"}
             /\ bound' = bound \cup {"conn"}
             /\ log' = Append(log, "Netmiko session established")
             /\ exc' = exc
             /\ pc' = "d_base"
        ELSE /\ exc' = "raised"
             /\ pc' = "d_except"
             /\ UNCHANGED <<open, opened, bound, log>>
    /\ UNCHANGED <<script, vlan_ids, vlan_names, commands, idx, closeCalls, wire, ret>>

DeploySendBase ==
    /\ script = "deploy" /\ pc = "d_base"
    /\ SendStep("send_config_set", "base", get_base_config,
                <<"Base configuration applied">>, "d_mlag", "d_with_exit")

DeploySendMlag ==
    /\ script = "deploy" /\ pc = "d_mlag"
    /\ SendStep("send_config_set", "mlag", get_mlag_config,
                <<"MLAG configuration applied">>, "d_pc", "d_with_exit")

\* variant: the run leaves the with block without sending "write memory"
DeploySendPortChannels_NoPersist ==
    /\ script = "deploy" /\ pc = "d_pc"
    /\ SendStep("send_config_set", "port-channels", generate_port_channels,
                <<"Port-Channels 10-45 configured">>, "d_with_exit", "d_with_exit")

DeploySendPortChannels ==
    /\ script = "deploy" /\ pc = "d_pc"
    /\ SendStep("send_config_set", "port-channels", generate_port_channels,
                <<"Port-Channels 10-45 configured">>, "d_persist", "d_with_exit")

\* conn.send_command("write memory", expect_string=r"#")
DeployPersist ==
    /\ script = "deploy" /\ pc = "d_persist"
    /\ SendStep("send_command", "persist", <<"write memory">>,
                <<"Configuration saved">>, "d_with_exit", "d_with_exit")

\* leaving the with block, normally or by an exception: conn.disconnect()
DeployWithExit ==
    /\ script = "deploy" /\ pc = "d_with_exit"
    /\ open' = open \ OpenNamed("conn")
    /\ closeCalls' = Append(closeCalls, "conn")
    /\ pc' = IF exc = "raised" THEN "d_except" ELSE "d_finally"
    /\ UNCHANGED <<script, vlan_ids, vlan_names, commands, idx, bound, opened,
                   wire, log, exc, ret>>

\* except Exception as e: log, print, return False (after finally)
DeployExcept ==
    /\ script = "deploy" /\ pc = "d_except"
    /\ log' = Append(log, "Deployment failed")
    /\ exc' = "handled"
    /\ pc' = "d_finally"
    /\ UNCHANGED <<script, vlan_ids, vlan_names, commands, idx, bound, open,
                   opened, closeCalls, wire, ret>>

\* variant: "return True" sits inside the finally clause and overrides the
\* pending "return False"
DeployFinally_ReturnTrue ==
    /\ script = "deploy" /\ pc = "d_finally"
    /\ IF "ser" \in bound
       THEN /\ open' = open \ OpenNamed("ser")
            /\ closeCalls' = Append(closeCalls, "ser")
       ELSE UNCHANGED <<open, closeCalls>>
    /\ ret' = "True"
    /\ pc' = "done"
    /\ UNCHANGED <<script, vlan_ids, vlan_names, commands, idx, bound, opened,
                   wire, log, exc>>

\* variant: no finally clause, the serial handle is never closed
DeployFinally_NoClose ==
    /\ script = "deploy" /\ pc = "d_finally"
    /\ ret' = IF exc = "handled" THEN "False" ELSE "True"
    /\ pc' = "done"
    /\ UNCHANGED <<script, vlan_ids, vlan_names, commands, idx, bound, open,
                   opened, closeCalls, wire, log, exc>>

\* finally: if 'ser' in locals(): ser.close(); then the pending return
DeployFinally ==
    /\ script = "deploy" /\ pc = "d_finally"
    /\ IF "ser" \in bound
       THEN /\ open' = open \ OpenNamed("ser")
            /\ closeCalls' = Append(closeCalls, "ser")
       ELSE UNCHANGED <<open, closeCalls>>
    /\ ret' = IF exc = "handled" THEN "False" ELSE "True"
    /\ pc' = "done"
    /\ UNCHANGED <<script, vlan_ids, vlan_names, commands, idx, bound, opened,
                   wire, log, exc>>

(***************************************************************************)
(* Show-Config.py: the module body                                         *)
(***************************************************************************)
\* net_connect = ConnectHandler(**arista_switch)
ShowConnect ==
    /\ script = "show" /\ pc = "s_connect"
    /\ \E ok \in BOOLEAN :
        IF ok
        THEN /\ open' = open \cup {Handle("net_connect", SHOW_HOST)}
             /\ opened' = opened \cup {"net_connect"}
             /\ bound' = bound \cup {"net_connect"}
             /\ exc' = exc
             /\ pc' = "s_enable"
        ELSE /\ exc' = "raised"
             /\ pc' = "s_except"
             /\ UNCHANGED <<open, opened, bound>>
    /\ UNCHANGED <<script, vlan_ids, vlan_names, commands, idx, closeCalls, wire,
                   log, ret>>

\* net_connect.enable()
ShowEnable ==
    /\ script = "show" /\ pc = "s_enable"
    /\ SendStep("enable", "enable", << >>, << >>, "s_send", "s_except")

\* output = net_connect.send_command('show running-config'); print(output)
ShowSend ==
    /\ script = "show" /\ pc = "s_send"
    /\ SendStep("send_command", "show", <<"show running-config">>, << >>,
                "s_finally", "s_except")

\* except Exception as e: print
ShowExcept ==
    /\ script = "show" /\ pc = "s_except"
    /\ exc' = "handled"
    /\ pc' = "s_finally"
    /\ UNCHANGED <<script, vlan_ids, vlan_names, commands, idx, bound, open,
                   opened, closeCalls, wire, log, ret>>

\* finally: if 'net_connect' in locals(): net_connect.disconnect()
ShowFinally ==
    /\ script = "show" /\ pc = "s_finally"
    /\ IF "net_connect" \in bound
       THEN /\ open' = open \ OpenNamed("net_connect")
            /\ closeCalls' = Append(closeCalls, "net_connect")
       ELSE UNCHANGED <<open, closeCalls>>
    /\ ret' = "None"
    /\ pc' = "done"
    /\ UNCHANGED <<script, vlan_ids, vlan_names, commands, idx, bound, opened,
                   wire, log, exc>>

(***************************************************************************)
(* Vlan-Definitions.py: create_vlans                                       *)
(***************************************************************************)
NoNames == [given |-> FALSE, list |-> << >>]
Names(l) == [given |-> TRUE, list |-> l]

\* Python truth value of vlan_names: None and the empty list are false
Truthy(names) == names.given /\ Len(names.list) > 0

\* variant: the lower limit is 0
ValidVlanId_FromZero(v) == 0 <= v /\ v <= MAX_VLAN

\* 1 <= vlan_id <= 4094
ValidVlanId(v) == MIN_VLAN <= v /\ v <= MAX_VLAN

\* variant: every VLAN gets the first name
VlanCommand_FirstName(ids, names, i) ==
    IF Truthy(names)
    THEN ("vlan " \o IntStr(ids[i])) \o ("\nname " \o names.list[1])
    ELSE "vlan " \o IntStr(ids[i])

\* cmd = f"vlan {vlan_id}"; if vlan_names: cmd += f"\nname {vlan_names[i]}"
VlanCommand(ids, names, i) ==
    IF Truthy(names)
    THEN ("vlan " \o IntStr(ids[i])) \o ("\nname " \o names.list[i])
    ELSE "vlan " \o IntStr(ids[i])

\* if vlan_names and len(vlan_ids) != len(vlan_names): raise ValueError
LengthsRejected(ids, names) == Truthy(names) /\ Len(ids) # Len(names.list)

VlanCheckLengths ==
    /\ script = "vlans" /\ pc = "v_check"
    /\ IF LengthsRejected(vlan_ids, vlan_names)
       THEN /\ ret' = "ValueError"
            /\ exc' = "raised"
            /\ pc' = "done"
       ELSE /\ pc' = "v_loop"
            /\ UNCHANGED <<ret, exc>>
    /\ UNCHANGED <<script, vlan_ids, vlan_names, commands, idx, bound, open,
                   opened, closeCalls, wire, log>>

\* one iteration of: for i, vlan_id in enumerate(vlan_ids)
VlanLoop ==
    /\ script = "vlans" /\ pc = "v_loop"
    /\ IF idx > Len(vlan_ids)
       THEN /\ pc' = "v_connect"
            /\ UNCHANGED <<commands, idx, ret, exc>>
       ELSE IF ~ValidVlanId(vlan_ids[idx])
       THEN /\ ret' = "ValueError"
            /\ exc' = "raised"
            /\ pc' = "done"
            /\ UNCHANGED <<commands, idx>>
       ELSE /\ commands' = Append(commands, VlanCommand(vlan_ids, vlan_names, idx))
            /\ idx' = idx + 1
            /\ UNCHANGED <<pc, ret, exc>>
    /\ UNCHANGED <<script, vlan_ids, vlan_names, bound, open, opened,
                   closeCalls, wire, log>>

\* with ConnectHandler(**device_params) as conn
VlanConnect ==
    /\ script = "vlans" /\ pc = "v_connect"
    /\ \E ok \in BOOLEAN :
        IF ok
        THEN /\ open' = open \cup {Handle("conn", VLAN_HOST)}
             /\ opened' = opened \cup {"conn"}
             /\ bound' = bound \cup {"conn"}
             /\ pc' = "v_send"
             /\ UNCHANGED <<exc, ret>>
        ELSE /\ exc' = "raised"
             /\ ret' = "Exception"
             /\ pc' = "done"
             /\ UNCHANGED <<open, opened, bound>>
    /\ UNCHANGED <<script, vlan_ids, vlan_names, commands, idx, closeCalls, wire, log>>

\* output = conn.send_config_set(commands)
VlanSend ==
    /\ script = "vlans" /\ pc = "v_send"
    /\ SendStep("send_config_set", "vlans", commands, << >>, "v_save", "v_with_exit")

\* conn.save_config()
VlanSave ==
    /\ script = "vlans" /\ pc = "v_save"
    /\ SendStep("save_config", "persist", << >>, << >>, "v_with_exit", "v_with_exit")

\* leaving the with block: conn.disconnect(); then return output, or the
\* exception leaves create_vlans
VlanWithExit ==
    /\ script = "vlans" /\ pc = "v_with_exit"
    /\ open' = open \ OpenNamed("conn")
    /\ closeCalls' = Append(closeCalls, "conn")
    /\ ret' = IF exc = "raised" THEN "Exception" ELSE "output"
    /\ pc' = "done"
    /\ UNCHANGED <<script, vlan_ids, vlan_names, commands, idx, bound, opened,
                   wire, log, exc>>

(***************************************************************************)
(* Runs.                                                                   *)
(***************************************************************************)
VlanIdSamples == {0, 1, 10, 4094, 4095}
NameSamples == {"MGMT", "VOICE"}

SeqsUpTo(S, n) == UNION {[1..k -> S] : k \in 0..n}

StartPc(s) ==
    CASE s = "deploy" -> "d_serial" [] s = "show" -> "s_connect" [] s = "vlans" -> "v_check"

Init ==
    /\ script \in {"deploy", "show", "vlans"}
    /\ pc = StartPc(script)
    /\ IF script = "vlans"
       THEN /\ vlan_ids \in SeqsUpTo(VlanIdSamples, MaxVlans)
            /\ vlan_names \in {NoNames} \cup {Names(l) : l \in SeqsUpTo(NameSamples, MaxVlans)}
       ELSE /\ vlan_ids = << >>
            /\ vlan_names = NoNames
    /\ commands = << >>
    /\ idx = 1
    /\ bound = {}
    /\ open = {}
    /\ opened = {}
    /\ closeCalls = << >>
    /\ wire = << >>
    /\ log = << >>
    /\ exc = "none"
    /\ ret = "none"

Next ==
    \/ EstablishSerial
    \/ DeployConnect
    \/ DeploySendBase
    \/ DeploySendMlag
    \/ DeploySendPortChannels
    \/ DeployPersist
    \/ DeployWithExit
    \/ DeployExcept
    \/ DeployFinally
    \/ ShowConnect
    \/ ShowEnable
    \/ ShowSend
    \/ ShowExcept
    \/ ShowFinally
    \/ VlanCheckLengths
    \/ VlanLoop
    \/ VlanConnect
    \/ VlanSend
    \/ VlanSave
    \/ VlanWithExit

Spec == Init /\ [][Next]_vars

(***************************************************************************)
(* Vocabulary of the properties.                                           *)
(***************************************************************************)
Range(s) == {s[j] : j \in 1..Len(s)}

IsPrefix(s, t) == Len(s) <= Len(t) /\ \A j \in 1..Len(s) : s[j] = t[j]

\* what reached the transport, without the outcomes
WireCalls == [k \in 1..Len(wire) |-> [call |-> wire[k].call, cmds |-> wire[k].cmds]]

\* what a complete deployment sends
DeployPlan ==
    << [call |-> "send_config_set", cmds |-> get_base_config],
       [call |-> "send_config_set", cmds |-> get_mlag_config],
       [call |-> "send_config_set", cmds |-> generate_port_channels],
       [call |-> "send_command", cmds |-> <<"write memory">>] >>

BatchSites == <<"base", "mlag", "port-channels">>

BatchDoneMsgs ==
    << "Base configuration applied",
       "MLAG configuration applied",
       "Port-Channels 10-45 configured" >>

IsBatchDoneMsg(m) == m \in Range(BatchDoneMsgs)

\* the batches the log records as completed
Completed == SelectSeq(log, IsBatchDoneMsg)

\* the batch sends of the run so far
BatchSends == {k \in 1..Len(wire) : wire[k].call = "send_config_set"}

\* commands of the device's configuration grammar
InterfaceNames ==
    {"Management1", "Vlan4094", "Ethernet49-50"}
        \cup {"Ethernet" \o ToString(n) : n \in 0..MaxIfIndex}
        \cup {"Port-Channel" \o ToString(n) : n \in 0..(MaxIfIndex + 40)}

InterfaceCmds == {"interface " \o n : n \in InterfaceNames}

SubModeCmds ==
    {"line console 0", "mlag configuration"}
        \cup InterfaceCmds
        \cup {"vlan " \o ToString(v) : v \in VlanIdSamples}

GlobalCmds ==
    { "enable", "configure terminal", "hostname " \o HOSTNAME, "no aaa root",
      "username admin privilege 15 secret %TGBnhy6", "enable secret %TGBnhy6",
      "ip domain-name Dashen.local", "ip ssh version 2",
      "crypto key generate rsa modulus 2048" }

\* every sub-mode entry meets an element "exit" before the next sub-mode
\* entry, before a global command and before the end of the list
SubModesClosed(cmds) ==
    \A j \in 1..Len(cmds) :
        cmds[j] \in SubModeCmds =>
            \E k \in (j + 1)..Len(cmds) :
                /\ cmds[k] = "exit"
                /\ \A m \in (j + 1)..(k - 1) : cmds[m] \notin (SubModeCmds \cup GlobalCmds)

\* interface blocks of a command list: a block starts at an interface command
BlockStarts(cmds) == {j \in 1..Len(cmds) : cmds[j] \in InterfaceCmds}

NthStart(cmds, b) ==
    CHOOSE j \in BlockStarts(cmds) :
        Cardinality({m \in BlockStarts(cmds) : m < j}) = b - 1

Block(cmds, b) ==
    SubSeq(cmds, NthStart(cmds, b),
           IF b = Cardinality(BlockStarts(cmds)) THEN Len(cmds)
           ELSE NthStart(cmds, b + 1) - 1)

PairedBlocks(cmds) ==
    /\ Cardinality(BlockStarts(cmds)) = 72
    /\ cmds[1] \in InterfaceCmds
    /\ \A po \in 10..45 :
        LET member == Block(cmds, 2 * (po - 10) + 1)
            channel == Block(cmds, 2 * (po - 10) + 2)
        IN  /\ member[1] = "interface Ethernet" \o ToString(po - 9)
            /\ ("channel-group " \o ToString(po) \o " mode active") \in Range(member)
            /\ channel[1] = "interface Port-Channel" \o ToString(po)
            /\ ("mlag " \o ToString(po)) \in Range(channel)

(***************************************************************************)
(* C1 as stated: in deploy_config, when the connection opens and every     *)
(* batch send succeeds, the transport sees base, MLAG, port-channels and   *)
(* then "write memory", each exactly once and in that order, and the       *)
(* function returns True.                                                  *)
(***************************************************************************)
AllBatchesSucceed ==
    /\ script = "deploy"
    /\ "conn" \in opened
    /\ \A k \in BatchSends : wire[k].outcome = "ok"

C1_AsStated ==
    AllBatchesSucceed =>
        /\ IsPrefix(WireCalls, DeployPlan)
        /\ pc = "done" => (WireCalls = DeployPlan /\ ret = "True")

(***************************************************************************)
(* C1 amended: under the same condition the four calls reach the transport *)
(* exactly once each in the order base, MLAG, port-channels, "write        *)
(* memory"; the function returns True when "write memory" returns and      *)
(* False when "write memory" raises.                                       *)
(***************************************************************************)
C1_OrderAndPersist ==
    AllBatchesSucceed =>
        /\ IsPrefix(WireCalls, DeployPlan)
        /\ pc = "done" =>
            /\ WireCalls = DeployPlan
            /\ ret = (IF wire[Len(wire)].outcome = "raise" THEN "False" ELSE "True")

C1_Witness ==
    /\ script = "deploy" /\ pc = "done"
    /\ Len(wire) = 4
    /\ \A k \in 1..Len(wire) : wire[k].outcome = "ok"
    /\ wire[4].cmds = <<"write memory">>
    /\ ret = "True"

(***************************************************************************)
(* C2: in deploy_config, if the transport raises while sending the batch   *)
(* at position k, that send is the last call on the transport (no later    *)
(* batch, no "write memory"), the log records exactly the first k-1        *)
(* batches as completed, and the function returns False.                   *)
(***************************************************************************)
C2_FailureStops ==
    script = "deploy" =>
        \A k \in BatchSends :
            wire[k].outcome = "raise" =>
                /\ wire[k].site = BatchSites[k]
                /\ Len(wire) = k
                /\ Completed = SubSeq(BatchDoneMsgs, 1, k - 1)
                /\ pc = "done" => ret = "False"

C2_Witness ==
    /\ script = "deploy" /\ pc = "done"
    /\ Len(wire) = 2
    /\ wire[2].site = "mlag" /\ wire[2].outcome = "raise"
    /\ Completed = <<"Base configuration applied">>
    /\ ret = "False"

(***************************************************************************)
(* C3: when a batch send returns a response that carries the device's      *)
(* error marker, nothing more is sent (no later batch, no persist command) *)
(* and the run ends in failure.                                            *)
(***************************************************************************)
C3_MarkerStops ==
    \A k \in BatchSends :
        wire[k].outcome = "error_marker" =>
            /\ Len(wire) = k
            /\ pc = "done" => ret \in {"False", "ValueError", "Exception"}

(***************************************************************************)
(* C4: create_vlans with an id outside 1..4094 anywhere in vlan_ids never  *)
(* opens a connection and never reaches the transport, and ends by raising *)
(* the validation error.                                                   *)
(***************************************************************************)
HasBadId == \E j \in 1..Len(vlan_ids) : vlan_ids[j] \notin 1..4094

C4_FailFast ==
    (script = "vlans" /\ HasBadId) =>
        /\ opened = {}
        /\ wire = << >>
        /\ pc = "done" => ret = "ValueError"

C4_Witness ==
    /\ script = "vlans" /\ pc = "done"
    /\ vlan_ids = <<10, 4095>>
    /\ commands = <<"vlan 10">>
    /\ ret = "ValueError"
    /\ opened = {} /\ wire = << >>

(***************************************************************************)
(* C5: create_vlans given a name list (anything but None, the empty list   *)
(* included) whose length differs from that of vlan_ids raises the         *)
(* validation error and opens no connection.                               *)
(***************************************************************************)
C5_MismatchRejected ==
    (script = "vlans" /\ vlan_names.given /\ Len(vlan_names.list) # Len(vlan_ids)) =>
        /\ opened = {}
        /\ pc = "done" => ret = "ValueError"

(***************************************************************************)
(* C6 as stated: with n names for n ids the list handed to the transport   *)
(* has 2n elements, "vlan <id_i>" at 2i-1 and "name <name_i>" at 2i; with  *)
(* no names it has n elements "vlan <id_i>".                               *)
(***************************************************************************)
VlanSends == {k \in 1..Len(wire) : wire[k].site = "vlans"}

PlainVlanList(cmds) ==
    /\ Len(cmds) = Len(vlan_ids)
    /\ \A j \in 1..Len(vlan_ids) : cmds[j] = "vlan " \o ToString(vlan_ids[j])

C6_AsStated ==
    \A k \in VlanSends :
        LET cmds == wire[k].cmds
        IN  IF vlan_names.given /\ Len(vlan_names.list) = Len(vlan_ids)
            THEN /\ Len(cmds) = 2 * Len(vlan_ids)
                 /\ \A j \in 1..Len(vlan_ids) :
                        /\ cmds[2 * j - 1] = "vlan " \o ToString(vlan_ids[j])
                        /\ cmds[2 * j] = "name " \o vlan_names.list[j]
            ELSE ~vlan_names.given => PlainVlanList(cmds)

(***************************************************************************)
(* C6 amended: with n names for n ids the list handed to the transport has *)
(* n elements, the i-th being the one string "vlan <id_i>", a newline,     *)
(* "name <name_i>"; with no names it has n elements "vlan <id_i>"; input   *)
(* order, duplicates kept.                                                 *)
(***************************************************************************)
C6_OneElementPerVlan ==
    \A k \in VlanSends :
        LET cmds == wire[k].cmds
        IN  IF vlan_names.given /\ Len(vlan_names.list) = Len(vlan_ids)
            THEN /\ Len(cmds) = Len(vlan_ids)
                 /\ \A j \in 1..Len(vlan_ids) :
                        cmds[j] = "vlan " \o ToString(vlan_ids[j]) \o "\n"
                                      \o "name " \o vlan_names.list[j]
            ELSE ~vlan_names.given => PlainVlanList(cmds)

C6_Witness ==
    /\ script = "vlans"
    /\ vlan_ids = <<10, 4094>>
    /\ vlan_names = Names(<<"MGMT", "VOICE">>)
    /\ Len(wire) >= 1
    /\ wire[1].site = "vlans"
    /\ wire[1].cmds = <<"vlan 10\nname MGMT", "vlan 4094\nname VOICE">>

(***************************************************************************)
(* C7: the port-channel list sent by deploy_config has exactly 72          *)
(* interface blocks; for po = 10..45 in ascending order block 2(po-10)+1   *)
(* is interface Ethernet(po-9) with "channel-group po mode active" and the *)
(* block right after it is interface Port-Channel po with "mlag po".       *)
(***************************************************************************)
PortChannelSends == {k \in 1..Len(wire) : wire[k].site = "port-channels"}

C7_PairedBlocks == \A k \in PortChannelSends : PairedBlocks(wire[k].cmds)

C7_Witness ==
    /\ script = "deploy"
    /\ Len(wire) >= 3
    /\ wire[3].site = "port-channels"
    /\ Len(wire[3].cmds) = 396
    /\ wire[3].cmds[1] = "interface Ethernet1"
    /\ wire[3].cmds[396 - 5] = "interface Port-Channel45"

(***************************************************************************)
(* C8: close is only ever called on a handle that was opened, at most once *)
(* per handle, and when a script has finished no handle opened during the  *)
(* run is still open.                                                      *)
(***************************************************************************)
C8_AllReleased ==
    /\ \A j \in 1..Len(closeCalls) : closeCalls[j] \in opened
    /\ \A j, k \in 1..Len(closeCalls) : closeCalls[j] = closeCalls[k] => j = k
    /\ pc = "done" => (open = {} /\ Range(closeCalls) = opened)

C8_Witness ==
    /\ script = "deploy" /\ pc = "done"
    /\ opened = {"ser"}
    /\ closeCalls = <<"ser">>
    /\ open = {}
    /\ ret = "False"

(***************************************************************************)
(* C9: during a deploy_config run at most one handle on the serial port is *)
(* open at any time.                                                       *)
(***************************************************************************)
C9_OnePortHandle ==
    script = "deploy" => Cardinality({x \in open : x.target = SERIAL_PORT}) <= 1

(***************************************************************************)
(* C10: in every command list deploy_config sends, each command entering a *)
(* sub-mode is followed by an element "exit" before the next sub-mode      *)
(* entry, before any global command and before the list ends.              *)
(***************************************************************************)
C10_SubModesClosed ==
    script = "deploy" => \A k \in BatchSends : SubModesClosed(wire[k].cmds)

=============================================================================
